---------------------------- MODULE Spec2Model ----------------------------
(***************************************************************************)
(* A model of the certificate generator of src/gen.py: the Tk application  *)
(* CertificateGeneratorApp (import of a spreadsheet on a worker thread,    *)
(* the data table, generation of one document per table row on a worker    *)
(* thread, completion callbacks marshalled to the UI thread with after())  *)
(* and its pure helpers (_map_columns, _parse_row_data, _smart_date_parse, *)
(* get_english_name).                                                      *)
(*                                                                         *)
(* Text.  A Python str is modelled as the sequence of its code points,     *)
(* each code point a one-element string: S("Name") is <<"N","a","m","e">>. *)
(* A code point outside ASCII is written by name: zh_xing is the single    *)
(* code point U+59D3, so Len and slicing count it once, as Python does.    *)
(*                                                                         *)
(* Cells.  A spreadsheet cell is None, a str, an int or a datetime, as     *)
(* openpyxl returns them: None, StrCell(s), IntCell(n), DateTime(...).     *)
(***************************************************************************)
EXTENDS Integers, Sequences, FiniteSets, TLC

VARIABLES
    template_path,  \* self.template_path: "" or the chosen template
    data_keys,      \* self.data_keys
    sheet,          \* the rows held by self.sheet (tksheet)
    generate_btn,   \* self.generate_btn: [state, text]
    status_label,   \* self.status_label's text
    progress_bar,   \* self.progress_bar's value, a fraction <<num, den>>
    threads,        \* the worker threads started so far, in start order
    after_queue,    \* callbacks posted with self.after(0, ...), not yet run
    out_files,      \* the output directory: the files saved, one per name
    out_dir_exists, \* os.path.exists(out_path)
    loaded,         \* the data_list of the last _update_table_data that filled the table
    edited,         \* whether the user changed the table since it was last filled
    arg,            \* pure-function specifications: the argument
    ret,            \* pure-function specifications: the value returned
    called          \* pure-function specifications: whether the call was made

vars == <<template_path, data_keys, sheet, generate_btn, status_label,
          progress_bar, threads, after_queue, out_files,
          out_dir_exists, loaded, edited, arg, ret, called>>

appVars == <<template_path, data_keys, sheet, generate_btn, status_label,
             progress_bar, threads, after_queue, out_files,
             out_dir_exists, loaded, edited>>

fnVars == <<arg, ret, called>>

----------------------------------------------------------------------------
(* Text *)

S(str) == [i \in 1..Len(str) |-> SubSeq(str, i, i)]

Empty == <<>>

\* Python's None, where a function returns it in place of a value
None == [t |-> "None"]

\* code points outside ASCII, each one character
zh_xing == <<"U+59D3">>
zh_ming == <<"U+540D">>
zh_xing2 == <<"U+6027">>
zh_bie == <<"U+522B">>
zh_zheng == <<"U+8BC1">>
zh_jian == <<"U+4EF6">>
zh_lei == <<"U+7C7B">>
zh_xing3 == <<"U+578B">>
zh_shen == <<"U+8EAB">>
zh_fen == <<"U+4EFD">>
zh_hao == <<"U+53F7">>
zh_ma == <<"U+7801">>
zh_chu == <<"U+51FA">>
zh_sheng == <<"U+751F">>
zh_ri == <<"U+65E5">>
zh_qi == <<"U+671F">>
zh_ru == <<"U+5165">>
zh_xue == <<"U+5B66">>
zh_nian == <<"U+5E74">>
zh_zai == <<"U+5728">>
zh_du == <<"U+8BFB">>
zh_ji == <<"U+7EA7">>
zh_nan == <<"U+7537">>
zh_nv == <<"U+5973">>
zh_hu == <<"U+62A4">>
zh_zhao == <<"U+7167">>
zh_yue == <<"U+6708">>
zh_li == <<"U+674E">>
zh_ming2 == <<"U+660E">>
zh_wang == <<"U+738B">>
quote_left == <<"U+2018">>
quote_right == <<"U+2019">>

LowerLetters == S("abcdefghijklmnopqrstuvwxyz")
UpperLetters == S("ABCDEFGHIJKLMNOPQRSTUVWXYZ")
DigitChars == S("0123456789")

Range(seq) == {seq[i] : i \in 1..Len(seq)}

IndexIn(seq, c) == CHOOSE i \in 1..Len(seq) : seq[i] = c

IsDigit(c) == c \in Range(DigitChars)

DigitVal(c) == IndexIn(DigitChars, c) - 1

\* str.isspace for one character
IsSpace(c) == c \in {" ", "\t", "\n", "\r"}

\* the Han characters of the model's alphabet
HanChars == {zh_xing[1], zh_ming[1], zh_xing2[1], zh_bie[1], zh_zheng[1],
             zh_jian[1], zh_lei[1], zh_xing3[1], zh_shen[1], zh_fen[1],
             zh_hao[1], zh_ma[1], zh_chu[1], zh_sheng[1], zh_ri[1], zh_qi[1],
             zh_ru[1], zh_xue[1], zh_nian[1], zh_zai[1], zh_du[1], zh_ji[1],
             zh_nan[1], zh_nv[1], zh_hu[1], zh_zhao[1], zh_yue[1], zh_li[1],
             zh_ming2[1], zh_wang[1]}

\* str.isalpha for one character
IsAlpha(c) == c \in Range(LowerLetters) \cup Range(UpperLetters) \cup HanChars

\* ord(c) < 128
IsAscii(c) == c \notin HanChars \cup {quote_left[1], quote_right[1]}

\* str.upper / str.lower for one character
UpperChar(c) == IF c \in Range(LowerLetters) THEN UpperLetters[IndexIn(LowerLetters, c)] ELSE c

LowerChar(c) == IF c \in Range(UpperLetters) THEN LowerLetters[IndexIn(UpperLetters, c)] ELSE c

\* str.capitalize
Capitalize(s) ==
    [i \in 1..Len(s) |-> IF i = 1 THEN UpperChar(s[i]) ELSE LowerChar(s[i])]

RECURSIVE LStrip(_)
LStrip(s) == IF s # Empty /\ IsSpace(Head(s)) THEN LStrip(Tail(s)) ELSE s

RECURSIVE RStrip(_)
RStrip(s) ==
    IF s # Empty /\ IsSpace(s[Len(s)]) THEN RStrip(SubSeq(s, 1, Len(s) - 1)) ELSE s

\* str.strip
Strip(s) == RStrip(LStrip(s))

\* kw in s, for a non-empty kw
Contains(kw, s) ==
    \E i \in 1..(Len(s) - Len(kw) + 1) : SubSeq(s, i, i + Len(kw) - 1) = kw

\* s.replace(c, "") for a one-character c
Remove(s, c) == SelectSeq(s, LAMBDA x : x # c[1])

\* s.replace(c, d) for one-character c and d
ReplaceChar(s, c, d) == [i \in 1..Len(s) |-> IF s[i] = c[1] THEN d[1] ELSE s[i]]

\* s.split(sep) for a one-character sep
RECURSIVE Split(_, _)
Split(s, sep) ==
    IF \A i \in 1..Len(s) : s[i] # sep[1]
    THEN <<s>>
    ELSE LET k == CHOOSE i \in 1..Len(s) :
                      s[i] = sep[1] /\ \A j \in 1..(i - 1) : s[j] # sep[1]
         IN  <<SubSeq(s, 1, k - 1)>> \o Split(SubSeq(s, k + 1, Len(s)), sep)

RECURSIVE Join(_)
Join(parts) == IF parts = <<>> THEN Empty ELSE Head(parts) \o Join(Tail(parts))

\* str(n) for an int n
RECURSIVE IntStr(_)
IntStr(n) ==
    IF n < 0 THEN S("-") \o IntStr(-n)
    ELSE IF n < 10 THEN <<DigitChars[n + 1]>>
    ELSE IntStr(n \div 10) \o <<DigitChars[(n % 10) + 1]>>

\* the value of a run of decimal digits
RECURSIVE DigitsVal(_)
DigitsVal(s) ==
    IF s = Empty THEN 0 ELSE 10 * DigitsVal(SubSeq(s, 1, Len(s) - 1)) + DigitVal(s[Len(s)])

\* strftime's %m, %d: two digits, zero padded
Pad2(n) == IF n < 10 THEN S("0") \o IntStr(n) ELSE IntStr(n)

\* four digits, zero padded
Pad4(n) ==
    IF n < 10 THEN S("000") \o IntStr(n)
    ELSE IF n < 100 THEN S("00") \o IntStr(n)
    ELSE IF n < 1000 THEN S("0") \o IntStr(n) ELSE IntStr(n)

----------------------------------------------------------------------------
(* Cells and dates *)

StrCell(s) == [t |-> "str", v |-> s]

IntCell(n) == [t |-> "int", v |-> n]

\* a datetime.datetime
DateTime(y, mo, d, h, mi, s) ==
    [t |-> "datetime", year |-> y, month |-> mo, day |-> d,
     hour |-> h, minute |-> mi, second |-> s]

IsDateTime(val) == val.t = "datetime"

\* str(val) for a cell
Str(val) ==
    CASE val.t = "str" -> val.v
      [] val.t = "int" -> IntStr(val.v)
      [] val.t = "None" -> S("None")
      [] val.t = "datetime" ->
           Pad4(val.year) \o S("-") \o Pad2(val.month) \o S("-") \o Pad2(val.day)
           \o S(" ") \o Pad2(val.hour) \o S(":") \o Pad2(val.minute)
           \o S(":") \o Pad2(val.second)

\* bool(val): the truth value of a cell
Truthy(val) ==
    CASE val.t = "None" -> FALSE
      [] val.t = "str" -> val.v # Empty
      [] val.t = "int" -> val.v # 0
      [] val.t = "datetime" -> TRUE

IsLeap(y) == (y % 4 = 0 /\ y % 100 # 0) \/ y % 400 = 0

DaysInMonth(y, mo) ==
    IF mo = 2 THEN (IF IsLeap(y) THEN 29 ELSE 28)
    ELSE IF mo \in {4, 6, 9, 11} THEN 30 ELSE 31

\* calendar.month_name, index 0 included
month_name ==
    [i \in 0..12 |->
        CASE i = 0 -> Empty
          [] i = 1 -> S("January")
          [] i = 2 -> S("February")
          [] i = 3 -> S("March")
          [] i = 4 -> S("April")
          [] i = 5 -> S("May")
          [] i = 6 -> S("June")
          [] i = 7 -> S("July")
          [] i = 8 -> S("August")
          [] i = 9 -> S("September")
          [] i = 10 -> S("October")
          [] i = 11 -> S("November")
          [] i = 12 -> S("December")]

\* dt.strftime("%Y<nian>%m<yue>%d<ri>")
StrftimeZh(dt) ==
    IntStr(dt.year) \o zh_nian \o Pad2(dt.month) \o zh_yue \o Pad2(dt.day) \o zh_ri

\* dt.strftime("%B %d, %Y")
StrftimeEn(dt) ==
    month_name[dt.month] \o S(" ") \o Pad2(dt.day) \o S(", ") \o IntStr(dt.year)

\* a format string as its directives (two characters, "%Y") and literal characters
RECURSIVE FormatTokens(_)
FormatTokens(fmt) ==
    IF fmt = Empty THEN <<>>
    ELSE IF fmt[1] = "%" THEN <<"%" \o fmt[2]>> \o FormatTokens(SubSeq(fmt, 3, Len(fmt)))
    ELSE <<fmt[1]>> \o FormatTokens(Tail(fmt))

At(s, pos) == IF pos \in 1..Len(s) THEN s[pos] ELSE "EOS"

\* the number of whitespace characters of s from pos on
RECURSIVE SpaceRun(_, _)
SpaceRun(s, pos) == IF IsSpace(At(s, pos)) THEN 1 + SpaceRun(s, pos + 1) ELSE 0

\* The lengths one token of a format can match at s[pos], in the order the
\* regular expression of _strptime tries its alternatives:
\*   %Y \d\d\d\d                           %H 2[0-3]|[0-1]\d|\d
\*   %m 1[0-2]|0[1-9]|[1-9]                %M [0-5]\d|\d
\*   %d 3[0-1]|[1-2]\d|0[1-9]|[1-9]| [1-9] %S 6[0-1]|[0-5]\d|\d
\*   whitespace \s+ (greedy), any other character itself
Alternatives(tok, s, pos) ==
    LET a == At(s, pos)
        b == At(s, pos + 1)
        Opt(cond, n) == IF cond THEN <<n>> ELSE <<>>
        nz == Range(S("123456789"))
    IN  CASE tok = "%Y" ->
               Opt(\A i \in 0..3 : IsDigit(At(s, pos + i)), 4)
          [] tok = "%m" ->
               Opt(a = "1" /\ b \in {"0", "1", "2"}, 2) \o Opt(a = "0" /\ b \in nz, 2)
               \o Opt(a \in nz, 1)
          [] tok = "%d" ->
               Opt(a = "3" /\ b \in {"0", "1"}, 2) \o Opt(a \in {"1", "2"} /\ IsDigit(b), 2)
               \o Opt(a = "0" /\ b \in nz, 2) \o Opt(a \in nz, 1) \o Opt(a = " " /\ b \in nz, 2)
          [] tok = "%H" ->
               Opt(a = "2" /\ b \in {"0", "1", "2", "3"}, 2)
               \o Opt(a \in {"0", "1"} /\ IsDigit(b), 2) \o Opt(IsDigit(a), 1)
          [] tok = "%M" ->
               Opt(a \in Range(S("012345")) /\ IsDigit(b), 2) \o Opt(IsDigit(a), 1)
          [] tok = "%S" ->
               Opt(a = "6" /\ b \in {"0", "1"}, 2)
               \o Opt(a \in Range(S("012345")) /\ IsDigit(b), 2) \o Opt(IsDigit(a), 1)
          [] IsSpace(tok) ->
               [i \in 1..SpaceRun(s, pos) |-> SpaceRun(s, pos) + 1 - i]
          [] OTHER -> Opt(a = tok, 1)

\* format_regex.match(data_string): the first match a backtracking matcher
\* finds from the start of s, which need not reach the end of s
RECURSIVE ReMatch(_, _, _, _), TryAlternatives(_, _, _, _, _, _)
ReMatch(toks, k, s, pos) ==
    IF k > Len(toks) THEN [ok |-> TRUE, end |-> pos, found |-> <<>>]
    ELSE TryAlternatives(toks, k, s, pos, Alternatives(toks[k], s, pos), 1)

TryAlternatives(toks, k, s, pos, alts, j) ==
    IF j > Len(alts) THEN [ok |-> FALSE]
    ELSE LET r == ReMatch(toks, k + 1, s, pos + alts[j])
         IN  IF r.ok
             THEN [ok |-> TRUE, end |-> r.end,
                   found |-> <<<<toks[k], SubSeq(s, pos, pos + alts[j] - 1)>>>> \o r.found]
             ELSE TryAlternatives(toks, k, s, pos, alts, j + 1)

ValueError == [t |-> "ValueError"]

\* the group of a directive in a match, int()-converted; dflt when the format has none
Group(found, tok, dflt) ==
    IF \E i \in 1..Len(found) : found[i][1] = tok
    THEN DigitsVal(Strip(found[CHOOSE i \in 1..Len(found) : found[i][1] = tok][2]))
    ELSE dflt

\* the datetime of a match m of the whole of s, or ValueError: unconverted
\* data remains, or the fields are no date and time
MatchResult(m, s) ==
    IF ~m.ok THEN ValueError
    ELSE IF m.end # Len(s) + 1 THEN ValueError
    ELSE IF \/ Group(m.found, "%Y", 1900) < 1
            \/ Group(m.found, "%d", 1) > DaysInMonth(Group(m.found, "%Y", 1900),
                                                     Group(m.found, "%m", 1))
            \/ Group(m.found, "%S", 0) > 59
    THEN ValueError
    ELSE DateTime(Group(m.found, "%Y", 1900), Group(m.found, "%m", 1),
                  Group(m.found, "%d", 1), Group(m.found, "%H", 0),
                  Group(m.found, "%M", 0), Group(m.found, "%S", 0))

\* datetime.datetime.strptime(s, fmt): a datetime, or ValueError
strptime(s, fmt) == MatchResult(ReMatch(FormatTokens(fmt), 1, s, 1), s)

\* a faulty variant of date_formats: the list without "%Y-%m"
date_formats_NoYearMonth ==
    << S("%Y/%m/%d %H:%M:%S"), S("%Y/%m/%d"), S("%m/%d/%Y"), S("%Y-%m-%d"),
       S("%Y.%m.%d"), S("%Y%m%d") >>

date_formats ==
    << S("%Y/%m/%d %H:%M:%S"),
       S("%Y/%m/%d"),
       S("%m/%d/%Y"),
       S("%Y-%m-%d"),
       S("%Y-%m"),
       S("%Y.%m.%d"),
       S("%Y%m%d") >>

\* the loop of _smart_date_parse from format k on
RECURSIVE TryFormats(_, _, _)
TryFormats(val_str, formats, k) ==
    IF k > Len(formats) THEN None
    ELSE IF strptime(val_str, formats[k]) # ValueError THEN strptime(val_str, formats[k])
    ELSE TryFormats(val_str, formats, k + 1)

\* _smart_date_parse from val_str = str(val).strip() on
ParseStripped(val_str) ==
    IF val_str = Empty THEN None ELSE TryFormats(val_str, date_formats, 1)

_smart_date_parse(val) ==
    IF val = None THEN None
    ELSE IF IsDateTime(val) THEN val
    ELSE ParseStripped(Strip(Str(val)))

----------------------------------------------------------------------------
(* Column mapping *)

keywords ==
    << <<"name_zh", <<zh_xing \o zh_ming, S("legal name"), S("Name")>> >>,
       <<"gender_zh", <<zh_xing2 \o zh_bie, S("Gender")>> >>,
       <<"id_type_zh", <<zh_zheng \o zh_jian \o zh_lei \o zh_xing3, S("ID Type")>> >>,
       <<"id_number", <<zh_shen \o zh_fen \o zh_zheng \o zh_jian \o zh_hao \o zh_ma,
                        S("No."), S("ID Number")>> >>,
       <<"dob", <<zh_chu \o zh_sheng \o zh_ri \o zh_qi, S("Birth")>> >>,
       <<"admit_date", <<zh_ru \o zh_xue \o zh_nian \o zh_fen, S("Admission")>> >>,
       <<"student_id", <<zh_xue \o zh_hao, S("Student ID")>> >>,
       <<"grade", <<zh_zai \o zh_du \o zh_nian \o zh_ji, S("Grade")>> >> >>

FieldKeys == {keywords[i][1] : i \in 1..Len(keywords)}

KeywordsOf(key) == keywords[CHOOSE i \in 1..Len(keywords) : keywords[i][1] = key][2]

\* headers_str = [str(h) if h else "" for h in headers]
HeadersStr(headers) ==
    [i \in 1..Len(headers) |-> IF Truthy(headers[i]) THEN Str(headers[i]) ELSE Empty]

\* for kw in kw_list: if kw in header: ... break
RECURSIVE AnyKeywordIn(_, _, _)
AnyKeywordIn(kw_list, header, k) ==
    IF k > Len(kw_list) THEN FALSE
    ELSE IF Contains(kw_list[k], header) THEN TRUE
    ELSE AnyKeywordIn(kw_list, header, k + 1)

\* a faulty variant of ScanHeaders: the keyword loop outside the header loop, so that an
\* earlier keyword wins over an earlier column
RECURSIVE ScanHeaders_KeywordMajor(_, _, _)
ScanHeaders_KeywordMajor(headers_str, kw_list, idx) ==
    IF kw_list = <<>> THEN -1
    ELSE IF \E i \in 1..Len(headers_str) : Contains(Head(kw_list), headers_str[i])
    THEN (CHOOSE i \in 1..Len(headers_str) :
             /\ Contains(Head(kw_list), headers_str[i])
             /\ \A j \in 1..(i - 1) : ~Contains(Head(kw_list), headers_str[j])) - 1
    ELSE ScanHeaders_KeywordMajor(headers_str, Tail(kw_list), idx)

\* for idx, header in enumerate(headers_str): from 0-based column idx on;
\* the column index found, or -1
RECURSIVE ScanHeaders(_, _, _)
ScanHeaders(headers_str, kw_list, idx) ==
    IF idx >= Len(headers_str) THEN -1
    ELSE IF AnyKeywordIn(kw_list, headers_str[idx + 1], 1) THEN idx
    ELSE ScanHeaders(headers_str, kw_list, idx + 1)

\* the mapping (0-based column indices, -1 for a field not found), or None
\* a faulty variant of MappingOrNone: the gender column is required too
MappingOrNone_GenderRequired(mapping) ==
    IF mapping["name_zh"] = -1 \/ mapping["gender_zh"] = -1 THEN None ELSE mapping

\* return None if mapping.get("name_zh", -1) == -1, else the mapping
MappingOrNone(mapping) == IF mapping["name_zh"] = -1 THEN None ELSE mapping

_map_columns(headers) ==
    MappingOrNone([key \in FieldKeys |-> ScanHeaders(HeadersStr(headers), KeywordsOf(key), 0)])

----------------------------------------------------------------------------
(* Romanization *)

\* pypinyin's transcription (Style.NORMAL) of one Han character
PinyinOf(c) ==
    CASE c = zh_li[1] -> S("li")
      [] c = zh_ming2[1] -> S("ming")
      [] c = zh_wang[1] -> S("wang")
      [] c = zh_xing[1] -> S("xing")
      [] c = zh_ming[1] -> S("ming")
      [] c = zh_nan[1] -> S("nan")
      [] c = zh_nv[1] -> S("nv")
      [] c = zh_xue[1] -> S("xue")
      [] c = zh_sheng[1] -> S("sheng")
      [] c = zh_nian[1] -> S("nian")
      [] c = zh_yue[1] -> S("yue")
      [] c = zh_ri[1] -> S("ri")
      [] OTHER -> <<c>>

\* pypinyin.pinyin(s, style=NORMAL): one syllable per Han character, and each
\* maximal run of other characters kept as one item
RECURSIVE Pinyin(_)
Pinyin(s) ==
    IF s = Empty THEN <<>>
    ELSE IF s[1] \in HanChars THEN <<PinyinOf(s[1])>> \o Pinyin(Tail(s))
    ELSE LET n == CHOOSE k \in 1..Len(s) :
                      /\ \A i \in 1..k : s[i] \notin HanChars
                      /\ (k = Len(s) \/ s[k + 1] \in HanChars)
         IN  <<SubSeq(s, 1, n)>> \o Pinyin(SubSeq(s, n + 1, Len(s)))

\* "Surname, Firstname" of the syllables py_list
SurnameFirstname(py_list) ==
    IF py_list = <<>> THEN Empty
    ELSE Capitalize(py_list[1]) \o S(", ") \o Capitalize(Join(Tail(py_list)))

get_english_name(chinese_name) ==
    IF \A i \in 1..Len(chinese_name) :
           IsAlpha(chinese_name[i]) => IsAscii(chinese_name[i])
    THEN chinese_name
    ELSE IF chinese_name = Empty \/ Len(chinese_name) < 2 THEN Empty
    ELSE SurnameFirstname(Pinyin(chinese_name))

----------------------------------------------------------------------------
(* Records.  A dict is the sequence of its <<key, value>> items in insertion order. *)

DictKeys(d) == [i \in 1..Len(d) |-> d[i][1]]

HasKey(d, k) == \E i \in 1..Len(d) : d[i][1] = k

\* d.get(k, dflt)
DictGet(d, k, dflt) ==
    IF HasKey(d, k) THEN d[CHOOSE i \in 1..Len(d) : d[i][1] = k][2] ELSE dflt

\* d[k] = v
DictSet(d, k, v) ==
    IF HasKey(d, k) THEN [i \in 1..Len(d) |-> IF d[i][1] = k THEN <<k, v>> ELSE d[i]]
    ELSE Append(d, <<k, v>>)

\* dict(zip(ks, vs))
RECURSIVE DictZip(_, _)
DictZip(ks, vs) ==
    IF ks = <<>> \/ vs = <<>> THEN <<>>
    ELSE DictSet(DictZip(SubSeq(ks, 1, Len(ks) - 1), SubSeq(vs, 1, Len(ks) - 1)),
                 ks[Len(ks)], vs[Len(ks)])

\* int(s) as far as the month fallback needs it: surrounding whitespace, an
\* optional plus sign, decimal digits; anything else raises ValueError
PyIntBody(s) ==
    IF Strip(s) # Empty /\ Strip(s)[1] = "+" THEN Tail(Strip(s)) ELSE Strip(s)

AllDigits(s) == s # Empty /\ \A i \in 1..Len(s) : IsDigit(s[i])

PyIntOk(s) == AllDigits(PyIntBody(s))

PyInt(s) == DigitsVal(PyIntBody(s))

\* get_val of _parse_row_data
get_val(row, idx_map, key) ==
    IF idx_map[key] = -1 \/ idx_map[key] >= Len(row) THEN Empty
    ELSE IF row[idx_map[key] + 1] # None THEN Strip(Str(row[idx_map[key] + 1]))
    ELSE Empty

\* row[idx_map.get(key, -1)] if idx_map.get(key, -1) != -1 else ""
RawCell(row, idx_map, key) ==
    IF idx_map[key] # -1 THEN row[idx_map[key] + 1] ELSE StrCell(Empty)

\* a faulty variant of AdmitFields: the last branch leaves admit_month_en out
AdmitFields_NoMonthName(entry, raw_admit, admit_dt) ==
    IF admit_dt # None
    THEN DictSet(DictSet(DictSet(entry,
             "admit_year", IntStr(admit_dt.year)),
             "admit_month", IntStr(admit_dt.month)),
             "admit_month_en", month_name[admit_dt.month])
    ELSE DictSet(DictSet(entry,
             "admit_year", S("Unknown")),
             "admit_month", S("Unknown"))

\* the admission items, in the order the branch taken assigns them;
\* admit_dt = self._smart_date_parse(raw_admit)
AdmitFields(entry, raw_admit, admit_dt) ==
    IF admit_dt # None
    THEN DictSet(DictSet(DictSet(entry,
             "admit_year", IntStr(admit_dt.year)),
             "admit_month", IntStr(admit_dt.month)),
             "admit_month_en", month_name[admit_dt.month])
    ELSE IF raw_admit.t = "str" /\ Contains(S("-"), raw_admit.v)
    THEN DictSet(DictSet(DictSet(entry,
             "admit_year", Split(raw_admit.v, S("-"))[1]),
             "admit_month", IF Len(Split(raw_admit.v, S("-"))) > 1
                            THEN Split(raw_admit.v, S("-"))[2] ELSE S("??")),
             "admit_month_en",
             IF /\ PyIntOk(Split(raw_admit.v, S("-"))[2])
                /\ PyInt(Split(raw_admit.v, S("-"))[2]) \in 0..12
             THEN month_name[PyInt(Split(raw_admit.v, S("-"))[2])] ELSE S("Unknown"))
    ELSE DictSet(DictSet(DictSet(entry,
             "admit_year", S("Unknown")),
             "admit_month", S("Unknown")),
             "admit_month_en", S("Unknown"))

\* the basic fields and the ID cleanup
BasicFields(row, idx_map) ==
    << <<"name_zh", get_val(row, idx_map, "name_zh")>>,
       <<"gender_zh", get_val(row, idx_map, "gender_zh")>>,
       <<"id_type_zh", IF get_val(row, idx_map, "id_type_zh") # Empty
                       THEN get_val(row, idx_map, "id_type_zh")
                       ELSE zh_shen \o zh_fen \o zh_zheng>>,
       <<"grade", get_val(row, idx_map, "grade")>>,
       <<"student_id", get_val(row, idx_map, "student_id")>>,
       <<"id_number",
         Strip(Remove(Remove(Remove(get_val(row, idx_map, "id_number"),
                                    quote_left), quote_right), S("'")))>> >>

\* the date of birth items; dob_dt = self._smart_date_parse(raw_dob)
DobFields(entry, raw_dob, dob_dt) ==
    IF dob_dt # None
    THEN DictSet(DictSet(entry, "dob_zh", StrftimeZh(dob_dt)), "dob_en", StrftimeEn(dob_dt))
    ELSE DictSet(DictSet(entry, "dob_zh", Str(raw_dob)), "dob_en", Str(raw_dob))

\* the current date items
DateFields(entry, current_date) ==
    DictSet(DictSet(entry, "date_zh", StrftimeZh(current_date)),
            "date_en", StrftimeEn(current_date))

\* the translations: name, gender, ID type
NameField(entry) ==
    DictSet(entry, "name_en", get_english_name(DictGet(entry, "name_zh", Empty)))

GenderField(entry) ==
    DictSet(entry, "gender_en",
            IF Contains(zh_nan, DictGet(entry, "gender_zh", Empty)) THEN S("Male")
            ELSE IF Contains(zh_nv, DictGet(entry, "gender_zh", Empty)) THEN S("Female")
            ELSE DictGet(entry, "gender_zh", Empty))

IdTypeField(entry) ==
    DictSet(entry, "id_type_en",
            IF Contains(zh_shen \o zh_fen \o zh_zheng, DictGet(entry, "id_type_zh", Empty))
            THEN S("ID Card")
            ELSE IF Contains(zh_hu \o zh_zhao, DictGet(entry, "id_type_zh", Empty))
            THEN S("Passport")
            ELSE S("ID Document"))

_parse_row_data(row, idx_map, current_date) ==
    IdTypeField(GenderField(NameField(DateFields(
        AdmitFields(
            DobFields(BasicFields(row, idx_map),
                      RawCell(row, idx_map, "dob"),
                      _smart_date_parse(RawCell(row, idx_map, "dob"))),
            RawCell(row, idx_map, "admit_date"),
            _smart_date_parse(RawCell(row, idx_map, "admit_date"))),
        current_date))))

----------------------------------------------------------------------------
(* The environment: the files the user can pick, and today's date *)

\* datetime.date.today()
Today == DateTime(2026, 11, 3, 0, 0, 0)

TemplateFiles == {S("tpl.docx")}

HeadersZh ==
    << StrCell(zh_xing \o zh_ming), StrCell(zh_xing2 \o zh_bie), StrCell(zh_xue \o zh_hao),
       StrCell(zh_chu \o zh_sheng \o zh_ri \o zh_qi),
       StrCell(zh_ru \o zh_xue \o zh_nian \o zh_fen) >>

HeadersEn ==
    << StrCell(S("Student Name")), StrCell(S("Gender")), StrCell(S("Student ID")),
       StrCell(S("Date of Birth")), StrCell(S("Admission")) >>

\* the spreadsheets on disk: the header row (row 1) and the data rows; a file
\* that load_workbook cannot read has readable = FALSE
Workbooks ==
    [ students |->
        [ readable |-> TRUE, headers |-> HeadersZh,
          rows |-> << << StrCell(zh_li \o zh_ming2), StrCell(zh_nan), StrCell(S("S1")),
                         DateTime(2010, 5, 3, 0, 0, 0), StrCell(S("2024-08")) >>,
                      << StrCell(zh_li \o zh_ming2), StrCell(zh_nv), StrCell(S("S1")),
                         StrCell(S("2010/05/03")), StrCell(S("2024-13")) >> >> ],
      short_names |->
        [ readable |-> TRUE,
          headers |-> << None, StrCell(S("Name")), StrCell(S("Remarks")) >>,
          rows |-> << << IntCell(1), StrCell(zh_wang), StrCell(S("x")) >>,
                      << IntCell(2), StrCell(S(" ")), None >> >> ],
      skipped |->
        [ readable |-> TRUE, headers |-> HeadersEn,
          rows |-> << << None, StrCell(S("Male")), IntCell(7), None, IntCell(20240901) >> >> ],
      no_name |->
        [ readable |-> TRUE,
          headers |-> << StrCell(S("Remarks")), StrCell(S("Gender")), StrCell(S("Student ID")) >>,
          rows |-> << << StrCell(zh_wang \o zh_ming2), StrCell(zh_nan), StrCell(S("S3")) >> >> ],
      corrupt |->
        [ readable |-> FALSE, headers |-> <<>>, rows |-> <<>> ] ]

WorkbookFiles == DOMAIN Workbooks

----------------------------------------------------------------------------
(* Worker threads and the callbacks they post *)

ExcelThread(filename) == [kind |-> "excel", pc |-> "run", filename |-> filename]

GenerateThread ==
    [kind |-> "generate", pc |-> "begin", current_data |-> <<>>, total |-> 0, i |-> 0,
     posted |-> <<>>, rendered |-> <<>>, failed |-> FALSE]

Running(th) == th.pc \notin {"done", "dead"}

\* a thread that has ended: its local variables are gone; what a generation run
\* posted and saved stays on record
Ended(th, pc) ==
    IF th.kind = "excel"
    THEN [kind |-> "excel", pc |-> pc, filename |-> ""]
    ELSE [th EXCEPT !.pc = pc, !.current_data = <<>>]

\* lambda: messagebox.showerror("Error", text), posted with self.after
ShowErrorCb(text) == [cb |-> "showerror", text |-> text]

\* self.after(0, cb)
After(queue, cb) == Append(queue, cb)

\* a faulty variant of Progress: the loop index itself over the total
Progress_FromIndex(i, total) == <<i, total>>

\* progress = (i + 1) / total, as the fraction <<numerator, denominator>>
Progress(i, total) == <<i + 1, total>>

\* the file name generate_docs saves a context under
FileName(context) ==
    LET safe_name == ReplaceChar(DictGet(context, "name_zh", S("Doc")), S("/"), S("_"))
        safe_id == DictGet(context, "student_id", S("Unknown"))
    IN  safe_id \o S("_") \o safe_name \o S(".docx")

\* the rows of _process_excel_thread's loop from data row k on
RECURSIVE ProcessRows(_, _, _)
ProcessRows(rows, col_indices, k) ==
    IF k > Len(rows) THEN <<>>
    ELSE IF ~Truthy(rows[k][col_indices["name_zh"] + 1])
    THEN ProcessRows(rows, col_indices, k + 1)
    ELSE <<_parse_row_data(rows[k], col_indices, Today)>>
         \o ProcessRows(rows, col_indices, k + 1)

\* [entry.get(k, "") for k in self.data_keys] for every entry
SheetData(data_list, keys) ==
    [r \in 1..Len(data_list) |-> [c \in 1..Len(keys) |-> DictGet(data_list[r], keys[c], Empty)]]

----------------------------------------------------------------------------
(* The application's variables at construction (__init__, _setup_ui) *)

AppInit ==
    /\ template_path = Empty
    /\ data_keys = <<>>
    /\ sheet = <<>>
    /\ generate_btn = [state |-> "disabled", text |-> "Generate Certificates"]
    /\ status_label = "Ready"
    /\ progress_bar = <<0, 1>>
    /\ threads = <<>>
    /\ after_queue = <<>>
    /\ out_files = {}
    /\ out_dir_exists = FALSE
    /\ loaded = <<>>
    /\ edited = FALSE

FnIdle == arg = None /\ ret = None /\ called = FALSE

----------------------------------------------------------------------------
(* Bounds *)

MaxThreads == 2

----------------------------------------------------------------------------
(* UI-thread operations *)

ThreadIds == 1..Len(threads)

SetThread(t, th) == [threads EXCEPT ![t] = th]

load_template ==
    /\ \E f \in TemplateFiles : template_path' = f
    /\ UNCHANGED <<data_keys, sheet, generate_btn, status_label, progress_bar, threads,
                   after_queue, out_files, out_dir_exists, loaded, edited>>

load_excel ==
    /\ Len(threads) < MaxThreads
    /\ \E filename \in WorkbookFiles :
          threads' = Append(threads, ExcelThread(filename))
    /\ status_label' = "Processing Excel data..."
    /\ UNCHANGED <<template_path, data_keys, sheet, generate_btn, progress_bar,
                   after_queue, out_files, out_dir_exists, loaded, edited>>

\* the Generate button's command; a disabled button takes no click.  Without a
\* template it shows a modal error dialog and returns
start_generation_thread ==
    /\ generate_btn.state = "normal"
    /\ IF template_path = Empty
       THEN UNCHANGED <<generate_btn, threads>>
       ELSE /\ Len(threads) < MaxThreads
            /\ generate_btn' = [state |-> "disabled", text |-> "Generating..."]
            /\ threads' = Append(threads, GenerateThread)
    /\ UNCHANGED <<template_path, data_keys, sheet, status_label, progress_bar,
                   after_queue, out_files, out_dir_exists, loaded, edited>>

EditValues == {S("A/B")}

\* the table's edit_cell binding, on the name_zh column
edit_cell ==
    /\ \E r \in 1..Len(sheet), c \in {1}, v \in EditValues :
          /\ c <= Len(sheet[r])
          /\ sheet[r][c] # v
          /\ sheet' = [sheet EXCEPT ![r][c] = v]
    /\ edited' = TRUE
    /\ UNCHANGED <<template_path, data_keys, generate_btn, status_label, progress_bar,
                   threads, after_queue, out_files, out_dir_exists, loaded>>

\* the table's rc_delete_row binding
delete_row ==
    /\ \E r \in 1..Len(sheet) :
          sheet' = SubSeq(sheet, 1, r - 1) \o SubSeq(sheet, r + 1, Len(sheet))
    /\ edited' = TRUE
    /\ UNCHANGED <<template_path, data_keys, generate_btn, status_label, progress_bar,
                   threads, after_queue, out_files, out_dir_exists, loaded>>

----------------------------------------------------------------------------
(* _process_excel_thread, on a worker thread *)

\* the one callback a run hands to the UI thread: the dialog of the handler
\* when load_workbook raises, the dialog of the missing name column, or
\* _update_table_data with the rows of the loop
ExcelCallback(wb, col_indices) ==
    IF ~wb.readable
    THEN ShowErrorCb("Failed to load Excel: <e>")
    ELSE IF col_indices = None
    THEN ShowErrorCb("Could not find required columns (Name, ID, etc).")
    ELSE [cb |-> "_update_table_data",
          data_list |-> ProcessRows(wb.rows, col_indices, 1)]

\* the thread reads the file and works on its own locals until it posts
_process_excel_thread(t) ==
    /\ threads[t].kind = "excel" /\ threads[t].pc = "run"
    /\ after_queue' = After(after_queue,
           ExcelCallback(Workbooks[threads[t].filename],
                         _map_columns(Workbooks[threads[t].filename].headers)))
    /\ threads' = SetThread(t, Ended(threads[t], "done"))
    /\ UNCHANGED <<template_path, data_keys, sheet, generate_btn, status_label,
                   progress_bar, out_files, out_dir_exists, loaded, edited>>

----------------------------------------------------------------------------
(* generate_docs, on a worker thread *)

\* up to the try: os.makedirs (which may raise, outside any handler), the
\* table's rows, the progress reset
GenBegin(t) ==
    LET th == threads[t]
    IN  /\ th.kind = "generate" /\ th.pc = "begin"
        /\ \E makedirs_ok \in BOOLEAN :
              IF out_dir_exists \/ makedirs_ok
              THEN /\ out_dir_exists' = TRUE
                   /\ threads' = SetThread(t, [th EXCEPT !.pc = "open",
                                                        !.current_data = sheet,
                                                        !.total = Len(sheet)])
                   /\ after_queue' = After(after_queue, [cb |-> "progress_reset"])
              ELSE /\ threads' = SetThread(t, Ended(th, "dead"))
                   /\ UNCHANGED <<out_dir_exists, after_queue>>
        /\ UNCHANGED <<template_path, data_keys, sheet, generate_btn, status_label,
                       progress_bar, out_files, loaded, edited>>

\* the handler of generate_docs: one error dialog, then _reset_ui
GenFail(queue) ==
    After(After(queue, ShowErrorCb("Generation failed: <e>")),
          [cb |-> "_reset_ui"])

\* doc = DocxTemplate(tpl_path), which may raise
GenOpen(t) ==
    LET th == threads[t]
    IN  /\ th.kind = "generate" /\ th.pc = "open"
        /\ \E ok \in BOOLEAN :
              IF ok
              THEN /\ threads' = SetThread(t, [th EXCEPT !.pc = "loop"])
                   /\ UNCHANGED after_queue
              ELSE /\ threads' = SetThread(t, Ended([th EXCEPT !.failed = TRUE], "done"))
                   /\ after_queue' = GenFail(after_queue)
        /\ UNCHANGED <<template_path, data_keys, sheet, generate_btn, status_label,
                       progress_bar, out_files, out_dir_exists, loaded, edited>>

\* one iteration of the loop: the context, the progress callback, render, save
GenRowStep(t, th, context, progress, posted) ==
    /\ \E outcome \in {"ok", "render raises", "save raises"} :
          IF outcome = "ok"
          THEN /\ out_files' = {f \in out_files : f.name # FileName(context)}
                               \cup {[name |-> FileName(context), by |-> t,
                                      row |-> th.i, context |-> context]}
               /\ after_queue' = posted
               /\ threads' = SetThread(t,
                      [th EXCEPT !.i = th.i + 1,
                                 !.posted = Append(th.posted, progress),
                                 !.rendered = Append(th.rendered,
                                     [row |-> th.i, name |-> FileName(context)])])
          ELSE /\ after_queue' = GenFail(posted)
               /\ threads' = SetThread(t,
                      Ended([th EXCEPT !.failed = TRUE,
                                       !.posted = Append(th.posted, progress)], "done"))
               /\ UNCHANGED out_files
    /\ UNCHANGED <<template_path, data_keys, sheet, generate_btn, status_label,
                   progress_bar, out_dir_exists, loaded, edited>>

ProgressCb(th) ==
    [cb |-> "_update_progress_ui", progress |-> Progress(th.i, th.total),
     current |-> th.i, total |-> th.total]

GenRow(t) ==
    /\ threads[t].kind = "generate" /\ threads[t].pc = "loop"
    /\ threads[t].i < threads[t].total
    /\ GenRowStep(t, threads[t],
                  DictZip(data_keys, threads[t].current_data[threads[t].i + 1]),
                  Progress(threads[t].i, threads[t].total),
                  After(after_queue, ProgressCb(threads[t])))

\* after the last row: self.after(0, self._finish_generation_ui)
GenFinish(t) ==
    LET th == threads[t]
    IN  /\ th.kind = "generate" /\ th.pc = "loop" /\ th.i >= th.total
        /\ after_queue' = After(after_queue, [cb |-> "_finish_generation_ui"])
        /\ threads' = SetThread(t, Ended(th, "done"))
        /\ UNCHANGED <<template_path, data_keys, sheet, generate_btn, status_label,
                       progress_bar, out_files, out_dir_exists, loaded, edited>>

----------------------------------------------------------------------------
(* The callbacks, run by the UI thread in the order they were posted *)

\* The dialog callback.  messagebox.showerror is modal: it returns when the
\* user has closed the dialog, and leaves the application as it was.  A lambda
\* that formats the handler's exception variable races with the worker leaving
\* the handler, which unbinds the variable: it shows the dialog, or raises
\* NameError inside the Tk callback; the application's state is the same
RunShowError ==
    /\ after_queue # <<>> /\ Head(after_queue).cb = "showerror"
    /\ after_queue' = Tail(after_queue)
    /\ UNCHANGED <<template_path, data_keys, sheet, generate_btn, status_label,
                   progress_bar, threads, out_files, out_dir_exists, loaded, edited>>

_update_table_data ==
    /\ after_queue # <<>> /\ Head(after_queue).cb = "_update_table_data"
    /\ after_queue' = Tail(after_queue)
    /\ LET data_list == Head(after_queue).data_list
       IN  IF data_list = <<>>
           THEN /\ status_label' = "No valid data found."
                /\ UNCHANGED <<data_keys, sheet, generate_btn, loaded, edited>>
           ELSE /\ data_keys' = DictKeys(data_list[1])
                /\ sheet' = SheetData(data_list, data_keys')
                /\ generate_btn' = [generate_btn EXCEPT !.state = "normal"]
                /\ status_label' = "Loaded <n> students. You can now edit data above."
                /\ loaded' = data_list
                /\ edited' = FALSE
    /\ UNCHANGED <<template_path, progress_bar, threads, out_files,
                   out_dir_exists>>

\* lambda: self.progress_bar.set(0)
RunProgressReset ==
    /\ after_queue # <<>> /\ Head(after_queue).cb = "progress_reset"
    /\ after_queue' = Tail(after_queue)
    /\ progress_bar' = <<0, 1>>
    /\ UNCHANGED <<template_path, data_keys, sheet, generate_btn, status_label, threads,
                   out_files, out_dir_exists, loaded, edited>>

_update_progress_ui ==
    /\ after_queue # <<>> /\ Head(after_queue).cb = "_update_progress_ui"
    /\ after_queue' = Tail(after_queue)
    /\ progress_bar' = Head(after_queue).progress
    /\ status_label' = "Generating <current + 1>/<total>..."
    /\ UNCHANGED <<template_path, data_keys, sheet, generate_btn, threads,
                   out_files, out_dir_exists, loaded, edited>>

\* ends with a modal messagebox.showinfo
_finish_generation_ui ==
    /\ after_queue # <<>> /\ Head(after_queue).cb = "_finish_generation_ui"
    /\ after_queue' = Tail(after_queue)
    /\ progress_bar' = <<1, 1>>
    /\ status_label' = "Completed!"
    /\ generate_btn' = [state |-> "normal", text |-> "Generate Certificates"]
    /\ UNCHANGED <<template_path, data_keys, sheet, threads, out_files, out_dir_exists,
                   loaded, edited>>

_reset_ui ==
    /\ after_queue # <<>> /\ Head(after_queue).cb = "_reset_ui"
    /\ after_queue' = Tail(after_queue)
    /\ generate_btn' = [state |-> "normal", text |-> "Generate Certificates"]
    /\ UNCHANGED <<template_path, data_keys, sheet, status_label, progress_bar, threads,
                   out_files, out_dir_exists, loaded, edited>>

----------------------------------------------------------------------------
(* The application *)

Init == AppInit /\ FnIdle

Next ==
    \/ load_template /\ UNCHANGED fnVars
    \/ load_excel /\ UNCHANGED fnVars
    \/ start_generation_thread /\ UNCHANGED fnVars
    \/ edit_cell /\ UNCHANGED fnVars
    \/ delete_row /\ UNCHANGED fnVars
    \/ \E t \in ThreadIds : _process_excel_thread(t) /\ UNCHANGED fnVars
    \/ \E t \in ThreadIds : GenBegin(t) /\ UNCHANGED fnVars
    \/ \E t \in ThreadIds : GenOpen(t) /\ UNCHANGED fnVars
    \/ \E t \in ThreadIds : GenRow(t) /\ UNCHANGED fnVars
    \/ \E t \in ThreadIds : GenFinish(t) /\ UNCHANGED fnVars
    \/ RunShowError /\ UNCHANGED fnVars
    \/ _update_table_data /\ UNCHANGED fnVars
    \/ RunProgressReset /\ UNCHANGED fnVars
    \/ _update_progress_ui /\ UNCHANGED fnVars
    \/ _finish_generation_ui /\ UNCHANGED fnVars
    \/ _reset_ui /\ UNCHANGED fnVars

Spec == Init /\ [][Next]_vars

----------------------------------------------------------------------------
(* _smart_date_parse on its own: the inputs *)

DateYears == {S("2024"), S("2023"), S("0000")}
DateMonths == {S("1"), S("02"), S("12"), S("13"), S("0")}
DateDays == {S("1"), S("09"), S("29"), S("31"), S("32"), S(" 5")}
DateTimes == {S("00:00:00"), S("23:59:59"), S("7:5:3"), S("24:00:00"),
              S("12:30:60"), S("12:30")}
DateSeps == {S("/"), S("-"), S("."), Empty}

DateBodies ==
    {y \o sep \o mo \o sep \o d : y \in DateYears, mo \in DateMonths, d \in DateDays, sep \in DateSeps}
    \cup {mo \o S("/") \o d \o S("/") \o y : y \in DateYears, mo \in DateMonths, d \in DateDays}
    \cup {y \o S("-") \o mo : y \in DateYears, mo \in DateMonths}
    \cup {y \o S("/") \o mo \o S("/") \o d \o S(" ") \o tm :
            y \in DateYears, mo \in DateMonths, d \in {S("1"), S("31")}, tm \in DateTimes}
    \cup {S("abc"), S("2024/01/02  03:04:05"), S("2024 / 01 / 02"), S("20240102 "), Empty}

DateInputs ==
    {StrCell(pre \o b \o post) : pre \in {Empty, S(" ")}, post \in {Empty, S(" "), S("x")}, b \in DateBodies}
    \cup {None, IntCell(20240102), IntCell(0), IntCell(202413),
          DateTime(2024, 2, 29, 0, 0, 0), DateTime(2010, 5, 3, 8, 30, 0)}

DateInit == AppInit /\ arg \in DateInputs /\ ret = None /\ called = FALSE

Call_smart_date_parse ==
    /\ ~called
    /\ ret' = _smart_date_parse(arg)
    /\ called' = TRUE
    /\ UNCHANGED <<appVars, arg>>

DateNext == Call_smart_date_parse

SpecDate == DateInit /\ [][DateNext]_vars

\* C6: _smart_date_parse returns None for None, a datetime unchanged, and for
\* any other value the reading, under the first of the seven listed formats it
\* is written in, of its text stripped of surrounding whitespace; None when
\* the stripped text is empty or written in none of the formats.  A text is
\* written in a format when it splits into the format's fields (a four-digit
\* year, one- or two-digit month, day, hour, minute, second, the day also as
\* a space and a digit) and separators, and the fields are a date and a time.
C6_ListedFormats ==
    << S("%Y/%m/%d %H:%M:%S"), S("%Y/%m/%d"), S("%m/%d/%Y"), S("%Y-%m-%d"),
       S("%Y-%m"), S("%Y.%m.%d"), S("%Y%m%d") >>

C6_FieldOk(tok, txt) ==
    CASE tok = "%Y" -> Len(txt) = 4 /\ AllDigits(txt) /\ DigitsVal(txt) >= 1
      [] tok = "%m" -> Len(txt) \in {1, 2} /\ AllDigits(txt) /\ DigitsVal(txt) \in 1..12
      [] tok = "%d" -> \/ Len(txt) \in {1, 2} /\ AllDigits(txt) /\ DigitsVal(txt) \in 1..31
                       \/ Len(txt) = 2 /\ txt[1] = " " /\ txt[2] \in Range(S("123456789"))
      [] tok = "%H" -> Len(txt) \in {1, 2} /\ AllDigits(txt) /\ DigitsVal(txt) \in 0..23
      [] tok \in {"%M", "%S"} ->
                       Len(txt) \in {1, 2} /\ AllDigits(txt) /\ DigitsVal(txt) \in 0..59
      [] tok = " " -> txt # Empty /\ \A i \in 1..Len(txt) : IsSpace(txt[i])
      [] OTHER -> txt = <<tok>>

\* the ways to split s from pos on into the fields of toks from k on
RECURSIVE C6_Splits(_, _, _, _)
C6_Splits(toks, k, s, pos) ==
    IF k > Len(toks) THEN (IF pos = Len(s) + 1 THEN {<<>>} ELSE {})
    ELSE UNION {{<<<<toks[k], SubSeq(s, pos, pos + n - 1)>>>> \o rest :
                    rest \in C6_Splits(toks, k + 1, s, pos + n)} :
                n \in {m \in 1..(Len(s) - pos + 1) :
                          C6_FieldOk(toks[k], SubSeq(s, pos, pos + m - 1))}}

C6_WrittenIn(s, fmt) ==
    \E sp \in C6_Splits(FormatTokens(fmt), 1, s, 1) :
        Group(sp, "%d", 1) <= DaysInMonth(Group(sp, "%Y", 1900), Group(sp, "%m", 1))

C6_Expected(val) ==
    IF val = None THEN None
    ELSE IF val.t = "datetime" THEN val
    ELSE LET v == Strip(Str(val))
             ok == {k \in 1..7 : C6_WrittenIn(v, C6_ListedFormats[k])}
         IN  IF v = Empty \/ ok = {} THEN None
             ELSE strptime(v, C6_ListedFormats[CHOOSE k \in ok : \A j \in ok : k <= j])

C6_SmartDateParse == called => ret = C6_Expected(arg)

\* C6's case: a text in the third listed format, padded with whitespace
C6_Witness ==
    /\ called
    /\ arg = StrCell(S(" 12/31/2024 "))
    /\ ret = DateTime(2024, 12, 31, 0, 0, 0)

----------------------------------------------------------------------------
(* _map_columns on its own *)

MaxCols == 3

HeaderPool ==
    { None, IntCell(0), StrCell(zh_xing \o zh_ming), StrCell(S("legal name")),
      StrCell(S("Student Name")), StrCell(S("name")), StrCell(S("Student ID")),
      StrCell(S("ID Number")), StrCell(S("Gender")), StrCell(S("Remarks")) }

HeaderRows == UNION {[1..n -> HeaderPool] : n \in 0..MaxCols}

MapInit == AppInit /\ arg \in HeaderRows /\ ret = None /\ called = FALSE

Call_map_columns ==
    /\ ~called
    /\ ret' = _map_columns(arg)
    /\ called' = TRUE
    /\ UNCHANGED <<appVars, arg>>

MapNext == Call_map_columns

SpecMap == MapInit /\ [][MapNext]_vars

\* C5: for each of the eight fields _map_columns gives the lowest column whose
\* header text (an empty or None header read as "") contains one of the
\* field's keywords, -1 when there is none, each field on its own; and it
\* gives None in place of the mapping exactly when name_zh has no column.
C5_Text(h) == IF h \in {None, StrCell(Empty), IntCell(0)} THEN Empty ELSE Str(h)

C5_Hits(headers, key) ==
    {i \in 1..Len(headers) :
        \E k \in 1..Len(KeywordsOf(key)) : Contains(KeywordsOf(key)[k], C5_Text(headers[i]))}

C5_Index(headers, key) ==
    IF C5_Hits(headers, key) = {} THEN -1
    ELSE (CHOOSE i \in C5_Hits(headers, key) : \A j \in C5_Hits(headers, key) : i <= j) - 1

C5_FirstMatchWins ==
    /\ Cardinality(FieldKeys) = 8
    /\ called =>
          IF C5_Index(arg, "name_zh") = -1 THEN ret = None
          ELSE ret = [key \in FieldKeys |-> C5_Index(arg, key)]

\* C5's case: two columns match name_zh, the earlier one by the later keyword
C5_Witness ==
    /\ called
    /\ arg = <<StrCell(S("Student ID")), StrCell(S("Student Name")), StrCell(zh_xing \o zh_ming)>>
    /\ ret # None
    /\ ret["name_zh"] = 1 /\ ret["student_id"] = 0 /\ ret["gender_zh"] = -1

----------------------------------------------------------------------------
(* get_english_name on its own *)

MaxNameLen == 3

NameChars == {zh_li[1], zh_ming2[1], "a", "B", " ", "1"}

Names == UNION {[1..n -> NameChars] : n \in 0..MaxNameLen}

NameInit == AppInit /\ arg \in Names /\ ret = None /\ called = FALSE

Call_get_english_name ==
    /\ ~called
    /\ ret' = get_english_name(arg)
    /\ called' = TRUE
    /\ UNCHANGED <<appVars, arg>>

NameNext == Call_get_english_name

SpecName == NameInit /\ [][NameNext]_vars

\* C7: get_english_name returns a name whose letters are all ASCII unchanged;
\* for a name of Han characters it returns "Surname, Firstname", the
\* capitalized transcription of the first character and of the rest; and the
\* Romanized form of a non-empty name is not empty.
C7_Syllables(name) == [i \in 1..Len(name) |-> PinyinOf(name[i])]

C7_EnglishName ==
    called =>
        /\ (\A i \in 1..Len(arg) : IsAlpha(arg[i]) => IsAscii(arg[i])) => ret = arg
        /\ (arg # Empty /\ \A i \in 1..Len(arg) : arg[i] \in HanChars) =>
              ret = Capitalize(C7_Syllables(arg)[1]) \o S(", ")
                    \o Capitalize(Join(Tail(C7_Syllables(arg))))
        /\ arg # Empty => ret # Empty

----------------------------------------------------------------------------
(* Claims about the application *)

Last(seq) == seq[Len(seq)]

GenerateThreads == {t \in ThreadIds : threads[t].kind = "generate"}

\* C1: every record handed to _update_table_data has a non-empty name_zh.
C1_RecordsHaveName ==
    \A k \in 1..Len(after_queue) :
        after_queue[k].cb = "_update_table_data" =>
            \A r \in 1..Len(after_queue[k].data_list) :
                DictGet(after_queue[k].data_list[r], "name_zh", Empty) # Empty

\* C2: when no header of a readable spreadsheet contains a name keyword,
\* _map_columns returns None and the load posts exactly one callback, the
\* error dialog, and no record; neither the load nor the dialog changes the
\* table, data_keys or the Generate button.  When a name column exists the
\* load hands its records over; every other field that no header names is
\* mapped to -1, and every record reads it as the empty string (the admission
\* fields, derived from that empty string, are "Unknown").
C2_NoNameHeader(filename) ==
    /\ Workbooks[filename].readable
    /\ C5_Hits(Workbooks[filename].headers, "name_zh") = {}

C2_Load(t) ==
    /\ t \in ThreadIds
    /\ threads[t].kind = "excel" /\ Running(threads[t])
    /\ ~Running(threads'[t])
    /\ Workbooks[threads[t].filename].readable

C2_Abort ==
    \A t \in ThreadIds :
        (C2_Load(t) /\ C2_NoNameHeader(threads[t].filename)) =>
            /\ _map_columns(Workbooks[threads[t].filename].headers) = None
            /\ after_queue' = Append(after_queue,
                   ShowErrorCb("Could not find required columns (Name, ID, etc)."))
            /\ UNCHANGED <<sheet, data_keys, generate_btn>>

C2_DialogKeepsTable ==
    (after_queue # <<>> /\ Head(after_queue).cb = "showerror"
     /\ after_queue' = Tail(after_queue))
        => UNCHANGED <<sheet, data_keys, generate_btn>>

C2_Unmatched(filename) ==
    {key \in FieldKeys : C5_Hits(Workbooks[filename].headers, key) = {}}

C2_ReadsEmpty(record, key) ==
    IF key = "dob" THEN DictGet(record, "dob_zh", None) = Empty
    ELSE IF key = "admit_date" THEN DictGet(record, "admit_year", None) = S("Unknown")
    ELSE DictGet(record, key, None) = Empty

C2_OtherFieldsOptional ==
    \A t \in ThreadIds :
        (C2_Load(t) /\ ~C2_NoNameHeader(threads[t].filename)) =>
            /\ Len(after_queue') = Len(after_queue) + 1
            /\ Last(after_queue').cb = "_update_table_data"
            /\ \A key \in C2_Unmatched(threads[t].filename) :
                  /\ _map_columns(Workbooks[threads[t].filename].headers)[key] = -1
                  /\ key # "id_type_zh" =>
                        \A r \in 1..Len(Last(after_queue').data_list) :
                            C2_ReadsEmpty(Last(after_queue').data_list[r], key)

C2_MissingColumns ==
    [][C2_Abort /\ C2_DialogKeepsTable /\ C2_OtherFieldsOptional]_vars

\* C2's case: a table is loaded and a later load of a spreadsheet without a
\* name column has posted its error
C2_Witness ==
    /\ sheet # <<>> /\ generate_btn.state = "normal"
    /\ \E k \in 1..Len(after_queue) :
          /\ after_queue[k].cb = "showerror"
          /\ after_queue[k].text = "Could not find required columns (Name, ID, etc)."

\* C3: a generation run that ends without an error leaves one file per row
\* of its table in the output directory.
C3_OneFilePerRow ==
    \A t \in GenerateThreads :
        (threads[t].pc = "done" /\ ~threads[t].failed /\ Cardinality(GenerateThreads) = 1) =>
            Cardinality({f \in out_files : f.by = t}) = threads[t].total

\* C4: at most one worker thread runs at any moment.
C4_AtMostOneWorker ==
    Cardinality({t \in ThreadIds : Running(threads[t])}) <= 1

\* C8: once every worker has ended and every callback has run, the Generate
\* button of an application that started a generation run is enabled again.
C8_ButtonReenabled ==
    (after_queue = <<>> /\ GenerateThreads # {}
     /\ \A t \in ThreadIds : ~Running(threads[t]))
        => generate_btn.state = "normal"

\* C9: a generation run posts the progress (i + 1) / total for row i = 0, 1, ...
\* in order, before it renders the row; it renders the rows in table order,
\* each once; a row that fails is the last one touched; and every file it
\* saved stays in the output directory.
C9_GenerationLoop ==
    /\ \A t \in GenerateThreads :
          LET th == threads[t]
          IN  /\ th.posted = [j \in 1..Len(th.posted) |-> <<j, th.total>>]
              /\ Len(th.posted) <= th.total
              /\ \A j \in 1..Len(th.rendered) : th.rendered[j].row = j - 1
              /\ Len(th.rendered) <= Len(th.posted)
              /\ Len(th.posted) <= Len(th.rendered) + 1
              /\ Len(th.posted) = Len(th.rendered) + 1 => th.failed
              /\ th.failed => th.pc = "done"
              /\ (th.pc = "done" /\ ~th.failed) => Len(th.rendered) = th.total
              /\ \A j \in 1..Len(th.rendered) :
                    \E f \in out_files : f.name = th.rendered[j].name
    /\ \A k \in 1..Len(after_queue) :
          after_queue[k].cb = "_update_progress_ui" =>
              /\ after_queue[k].total > 0
              /\ after_queue[k].progress = <<after_queue[k].current + 1, after_queue[k].total>>
              /\ after_queue[k].progress[1] <= after_queue[k].progress[2]

\* C9's case: the second of two rows failed; the first row's file is kept
C9_Witness ==
    \E t \in GenerateThreads :
        /\ threads[t].failed /\ threads[t].total = 2
        /\ Len(threads[t].posted) = 2 /\ Len(threads[t].rendered) = 1
        /\ \E f \in out_files : f.by = t /\ f.row = 0

\* C10: every record handed to _update_table_data has the same sixteen keys
\* in the same order; data_keys is that list whenever the Generate button is
\* enabled; zipping data_keys with a row of a table that was not edited gives
\* back the record the row was made from, in the table and in the contexts a
\* generation run over that table rendered.
C10_Keys ==
    << "name_zh", "gender_zh", "id_type_zh", "grade", "student_id", "id_number",
       "dob_zh", "dob_en", "admit_year", "admit_month", "admit_month_en",
       "date_zh", "date_en", "name_en", "gender_en", "id_type_en" >>

C10_RecordShape ==
    /\ Len(C10_Keys) = 16
    /\ \A k \in 1..Len(after_queue) :
          after_queue[k].cb = "_update_table_data" =>
              \A r \in 1..Len(after_queue[k].data_list) :
                  DictKeys(after_queue[k].data_list[r]) = C10_Keys
    /\ generate_btn.state = "normal" => data_keys = C10_Keys
    /\ (~edited /\ loaded # <<>>) =>
          /\ Len(sheet) = Len(loaded)
          /\ \A r \in 1..Len(sheet) : DictZip(data_keys, sheet[r]) = loaded[r]
    /\ \A f \in out_files :
          (~edited /\ Running(threads[f.by]) /\ threads[f.by].current_data = sheet)
              => f.context = loaded[f.row + 1]

\* C10's case: an unedited table whose second row took the date-parsed and
\* the admission-fallback branches, rendered by a run over that table
C10_Witness ==
    /\ ~edited /\ Len(loaded) = 2
    /\ \E f \in out_files :
          /\ f.row = 1 /\ Running(threads[f.by]) /\ threads[f.by].current_data = sheet
          /\ f.context = loaded[2]
          /\ DictGet(f.context, "dob_en", Empty) = S("May 03, 2010")
          /\ DictGet(f.context, "admit_year", Empty) = S("2024")
          /\ DictGet(f.context, "admit_month_en", Empty) = S("Unknown")

====
